---------------------------- MODULE Spec2Model ----------------------------
(***************************************************************************)
(* A model of runiq: the duplicate-detection filters (src/src/filters.rs   *)
(* and the older src/src/filters/*.rs), and the driver loop of             *)
(* src/src/main.rs with the counters of src/src/statistics.rs.             *)
(*                                                                         *)
(* A record is a byte sequence, modelled as a sequence of byte values.     *)
(* Every detect operation is an operator from (filter state, input) to the *)
(* new filter state and the returned boolean, as `detect(&mut self, input)`*)
(* is in the source.                                                       *)
(***************************************************************************)
EXTENDS Integers, Sequences, FiniteSets, TLC

VARIABLES
    naive,        \* NaiveFilter.inner: HashSet<Vec<u8>>
    digest,       \* DigestFilter.inner: FnvHashSet<u64>
    sorted,       \* SortedFilter.inner: Vec<u8>
    consecutive,  \* ConsecutiveFilter.inner: String
    bloom,        \* BloomFilter.inner: the layers of the scalable bloom filter
    calls,        \* history: the inputs given to detect, in call order
    res,          \* history: per filter, the booleans detect returned
    pc,           \* driver: position of main ("lib" when no driver runs)
    options,      \* driver: Options {filter, inverted, statistics}
    nreaders,     \* driver: number of input sources (options.inputs)
    rd,           \* driver: index of the reader being consumed
    atEnd,        \* driver: the current reader has no bytes left
    lines,        \* history: the buffers read_until has returned
    sources,      \* history: for each buffer, the reader it came from
    out,          \* driver: the sequence of buffers written to stdout
    statistics,   \* driver: Stats {unique, total, size}
    tally,        \* history: the add_unique (TRUE) and add_duplicate
                  \* (FALSE) calls made on the Stats, in call order
    target,       \* target_pointer_width of the build
    udigest,      \* filters/digest.rs DigestFilter.inner: FnvHashSet<usize>
    ures          \* history: the booleans its detect returned

vars == <<naive, digest, sorted, consecutive, bloom, calls, res,
          pc, options, nreaders, rd, atEnd, lines, sources, out, statistics,
          tally, target, udigest, ures>>

legacyVars == <<target, udigest, ures>>
filterVars == <<naive, digest, sorted, consecutive, bloom>>
driverVars == <<pc, options, nreaders, rd, atEnd, lines, sources, out,
                statistics, tally>>

---------------------------------------------------------------------------
(* Bounds of the model.                                                    *)

\* Longest sequence of detect calls explored.
MaxCalls == 5

\* Width in bits of the modelled digest (64 in the program).
HashBits == 6

\* Rated capacity of the first bloom layer (1_000_000 in the program).
InitialCapacity == 2

\* Number of hash probes of the first bloom layer, log2(1/p0).
BaseProbes == 2

\* Most input sources given to the driver.
MaxReaders == 3

\* Most add_unique and add_duplicate calls made on a Stats on its own.
MaxTally == 6

\* Largest total given to add_size on a Stats on its own.
MaxSize == 2

---------------------------------------------------------------------------
(* Bytes and records.                                                      *)

LF == 10
CR == 13

Empty == << >>
RecA == <<97>>
RecB == <<98>>
RecC == <<99>>
RecAB == <<97, 98>>
\* "rcf_default", the value ConsecutiveFilter::new stores
RcfDefault == <<114, 99, 102, 95, 100, 101, 102, 97, 117, 108, 116>>

Records == {Empty, RecA, RecB, RecC, RecAB, RcfDefault}

Kinds == {"Naive", "Digest", "Sorted", "Consecutive", "Bloom"}

RECURSIVE Pow(_, _)
Pow(b, e) == IF e = 0 THEN 1 ELSE b * Pow(b, e - 1)

\* Number of TRUE entries of a sequence of booleans.
CountTrue(s) == Cardinality({i \in 1..Len(s) : s[i]})

Range(s) == {s[i] : i \in 1..Len(s)}

---------------------------------------------------------------------------
(* xxhash2::hash64(input, seed): a deterministic function of the bytes and *)
(* the seed onto digests of HashBits bits.  The real mixing function is    *)
(* replaced by a multiplicative fold; what is kept is that the digest      *)
(* depends on the bytes only, is narrower than the records, and therefore  *)
(* is not injective: RecC and RecAB have the same digest.                  *)

RECURSIVE HashFold(_, _)
HashFold(input, acc) ==
    IF input = << >> THEN acc
    ELSE HashFold(Tail(input), (acc * 33 + Head(input)) % Pow(2, HashBits))

Hash64(input, seed) == HashFold(input, seed % Pow(2, HashBits))

Digests == 0..(Pow(2, HashBits) - 1)

\* xxhash2::hash32: another function of the bytes, onto half the width.
RECURSIVE HashFold32(_, _)
HashFold32(input, acc) ==
    IF input = << >> THEN acc
    ELSE HashFold32(Tail(input),
                    (acc * 31 + Head(input)) % Pow(2, HashBits \div 2))

Hash32(input, seed) == HashFold32(input, seed % Pow(2, HashBits \div 2))

\* The values cfg!(target_pointer_width) distinguishes.
TargetPointerWidths == {32, 64}

---------------------------------------------------------------------------
(* HashSet::insert: adds the value, returns whether it was not present.    *)

HashSetInsert(set, value) ==
    [self |-> set \cup {value}, ret |-> value \notin set]

---------------------------------------------------------------------------
(* NaiveFilter                                                             *)

NaiveNew == {}

\* Mutant: the set keeps only the record given last.
NaiveDetectLast(self, input) ==
    [self |-> {input}, ret |-> input \notin self]

\* Mutant: membership is decided on the digest, not on the bytes.
NaiveDetectByDigest(self, input) ==
    [self |-> self \cup {input},
     ret  |-> \A r \in self : Hash64(r, 0) # Hash64(input, 0)]

NaiveDetect(self, input) == HashSetInsert(self, input)

---------------------------------------------------------------------------
(* DigestFilter                                                            *)

DigestNew == {}

\* Mutant: the raw bytes are stored instead of their digest.
DigestDetectRaw(self, input) == HashSetInsert(self, input)

\* Mutant: the set keeps only the digest inserted last.
DigestDetectLast(self, input) ==
    LET d == Hash64(input, 0)
    IN  [self |-> {d}, ret |-> d \notin self]

\* Mutant: a repeated digest is taken out of the set again.
DigestDetectToggle(self, input) ==
    LET d == Hash64(input, 0)
    IN  IF d \in self
        THEN [self |-> self \ {d}, ret |-> FALSE]
        ELSE [self |-> self \cup {d}, ret |-> TRUE]

\* Mutant: the narrower hash32 is the membership key.
DigestDetectHash32(self, input) ==
    LET d == Hash32(input, 0)
    IN  HashSetInsert(self, d)

DigestDetect(self, input) ==
    LET d == Hash64(input, 0)
    IN  HashSetInsert(self, d)

\* DigestFilter of filters/digest.rs: the digest is a usize, hash64 on a
\* 64-bit target and hash32 otherwise.
DigestUsizeNew == {}

DigestUsizeDetect(self, input, width) ==
    LET d == IF width = 64 THEN Hash64(input, 0) ELSE Hash32(input, 0)
    IN  HashSetInsert(self, d)

---------------------------------------------------------------------------
(* SortedFilter (filters.rs) and ConsecutiveFilter (filters/consecutive.rs)*)

SortedNew == << >>

\* Mutant: the stored value is written once and never overwritten.
SortedDetectKeep(self, input) ==
    IF input = self
    THEN [self |-> self, ret |-> FALSE]
    ELSE [self |-> IF self = << >> THEN input ELSE self, ret |-> TRUE]

\* Mutant: the first byte of the input is read before the comparison,
\* which panics on the empty record.
SortedDetectFirstByte(self, input) ==
    IF input = << >>
    THEN [self |-> self, ret |-> FALSE, panic |-> TRUE]
    ELSE IF input = self
         THEN [self |-> self, ret |-> FALSE]
         ELSE [self |-> input, ret |-> TRUE]

SortedDetect(self, input) ==
    IF input = self
    THEN [self |-> self, ret |-> FALSE]
    ELSE [self |-> input, ret |-> TRUE]

ConsecutiveNew == RcfDefault

\* Mutant: a new record is reported but not stored.
ConsecutiveDetectNoStore(self, input) ==
    [self |-> self, ret |-> input # self]

ConsecutiveDetect(self, input) ==
    IF input = self
    THEN [self |-> self, ret |-> FALSE]
    ELSE [self |-> input, ret |-> TRUE]

---------------------------------------------------------------------------
(* ScalableBloomFilter<u64> (the scalable_bloom_filter crate): an ordered  *)
(* sequence of layers, oldest first.  Layer number i (from 0) has rated    *)
(* capacity c0 * GrowthFactor^i and target error rate p0 / TighteningDiv^i.*)
(* A layer is a bit array of m bits probed at k positions derived from the *)
(* two halves of the digest.                                               *)

GrowthFactor == 2

\* The tightening ratio is 1 / TighteningDiv.
TighteningDiv == 2

\* Layer number i of a filter whose first layer has capacity c0 and k0
\* probes.  Halving the error rate costs one more probe (k = log2(1/p));
\* the bit array has about k / ln 2 bits per rated element.
SbfNewLayer(i, c0, k0) ==
    LET c == c0 * Pow(GrowthFactor, i)
        k == k0 + i
    IN  [bits     |-> {},
         m        |-> (c * k * 3) \div 2,
         k        |-> k,
         count    |-> 0,
         capacity |-> c,
         tighten  |-> i]

SbfNew(c0, k0) == <<SbfNewLayer(0, c0, k0)>>

\* The probe positions of a digest in a layer: h1 + j * h2 (mod m).
SbfProbes(layer, d) ==
    LET half == Pow(2, HashBits \div 2)
        h1   == d % half
        h2   == d \div half
    IN  {(h1 + j * h2) % layer.m : j \in 0..(layer.k - 1)}

SbfLayerContains(layer, d) == SbfProbes(layer, d) \subseteq layer.bits

\* contains: positive in any layer.
SbfContains(self, d) == \E i \in 1..Len(self) : SbfLayerContains(self[i], d)

\* insert: sets the bits in the active (last) layer only, counts the
\* element, and appends the next layer when the active one is now full.
SbfInsert(self, d) ==
    LET n      == Len(self)
        active == self[n]
        filled == [active EXCEPT !.bits  = @ \cup SbfProbes(active, d),
                                 !.count = @ + 1]
        set    == [self EXCEPT ![n] = filled]
    IN  IF filled.count >= filled.capacity
        THEN Append(set, SbfNewLayer(n, self[1].capacity, self[1].k))
        ELSE set

---------------------------------------------------------------------------
(* BloomFilter                                                             *)

BloomNew == SbfNew(InitialCapacity, BaseProbes)

\* Mutant: no short circuit, the digest is inserted on duplicates too.
BloomDetectAlwaysInsert(self, input) ==
    LET d == Hash64(input, 0)
    IN  [self |-> SbfInsert(self, d), ret |-> ~SbfContains(self, d)]

\* Mutant: a new digest is reported but never inserted.
BloomDetectNoInsert(self, input) ==
    LET d == Hash64(input, 0)
    IN  [self |-> self, ret |-> ~SbfContains(self, d)]

BloomDetect(self, input) ==
    LET d == Hash64(input, 0)
    IN  IF SbfContains(self, d)
        THEN [self |-> self, ret |-> FALSE]
        ELSE [self |-> SbfInsert(self, d), ret |-> TRUE]

---------------------------------------------------------------------------
(* The filters driven through the library interface: fresh instances of    *)
(* every filter are given the same sequence of detect calls.               *)

NoOptions == [filter |-> "Digest", inverted |-> FALSE, statistics |-> FALSE]

StatsNew == [unique |-> 0, total |-> 0, size |-> 0]

FiltersNew ==
    /\ naive = NaiveNew
    /\ digest = DigestNew
    /\ sorted = SortedNew
    /\ consecutive = ConsecutiveNew
    /\ bloom = BloomNew
    /\ calls = << >>
    /\ res = [k \in Kinds |-> << >>]
    /\ target \in TargetPointerWidths
    /\ udigest = DigestUsizeNew
    /\ ures = << >>

Init ==
    /\ FiltersNew
    /\ pc = "lib"
    /\ options = NoOptions
    /\ nreaders = 0
    /\ rd = 0
    /\ atEnd = FALSE
    /\ lines = << >>
    /\ sources = << >>
    /\ out = << >>
    /\ statistics = StatsNew
    /\ tally = << >>

Detect(x) ==
    /\ pc = "lib"
    /\ Len(calls) < MaxCalls
    /\ LET n == NaiveDetect(naive, x)
           d == DigestDetect(digest, x)
           s == SortedDetect(sorted, x)
           c == ConsecutiveDetect(consecutive, x)
           b == BloomDetect(bloom, x)
           u == DigestUsizeDetect(udigest, x, target)
       IN  /\ udigest' = u.self
           /\ ures' = Append(ures, u.ret)
           /\ naive' = n.self
           /\ digest' = d.self
           /\ sorted' = s.self
           /\ consecutive' = c.self
           /\ bloom' = b.self
           /\ res' = [Naive       |-> Append(res.Naive, n.ret),
                      Digest      |-> Append(res.Digest, d.ret),
                      Sorted      |-> Append(res.Sorted, s.ret),
                      Consecutive |-> Append(res.Consecutive, c.ret),
                      Bloom       |-> Append(res.Bloom, b.ret)]
    /\ calls' = Append(calls, x)
    /\ target' = target
    /\ UNCHANGED driverVars

Next == \E x \in Records : Detect(x)

Spec == Init /\ [][Next]_vars

---------------------------------------------------------------------------
(* The driver: main() of main.rs.  One filter, chosen by options.filter,   *)
(* is shared by all readers.  The readers are consumed one after another;  *)
(* what read_until returns is the environment's choice: an error, no bytes *)
(* (the reader is exhausted), or the bytes of the next line up to and      *)
(* including its line feed (without one when the reader ends there).       *)
(* Writes to stdout are taken to succeed.                                  *)

\* FilterKind, as accepted on the command line.
FilterKinds == {"Sorted", "Digest", "Naive", "Bloom"}

\* impl Into<Box<dyn Filter>> for FilterKind
FilterNew(kind) ==
    CASE kind = "Sorted" -> SortedNew
      [] kind = "Digest" -> DigestNew
      [] kind = "Naive"  -> NaiveNew
      [] kind = "Bloom"  -> BloomNew

\* filter.detect(input) through the boxed trait object.
FilterDetect(kind, self, input) ==
    CASE kind = "Sorted" -> SortedDetect(self, input)
      [] kind = "Digest" -> DigestDetect(self, input)
      [] kind = "Naive"  -> NaiveDetect(self, input)
      [] kind = "Bloom"  -> BloomDetect(self, input)

\* The state of the filter of the given kind.
FilterState(kind) ==
    CASE kind = "Sorted" -> sorted
      [] kind = "Digest" -> digest
      [] kind = "Naive"  -> naive
      [] kind = "Bloom"  -> bloom

\* The contents a line can have, and how it can end.
LineContents == {Empty, RecA, RecB, RecC}
LineEndings == {<< >>, <<LF>>, <<CR, LF>>, <<CR>>}

\* The buffers read_until can return with n > 0 bytes.
LineBuffers == {c \o e : c \in LineContents, e \in LineEndings} \ {<< >>}

\* The Ok(n) arm: the delimiter is popped when buf[n - 1] is a line feed;
\* then trim[n - 1] is read again for the carriage return.  Indices are
\* from 0 in the source and from 1 here.  Reading index n - 1 of a slice
\* shorter than n panics.
Trim(buf) ==
    LET n     == Len(buf)
        first == IF buf[n] = LF THEN SubSeq(buf, 1, n - 1) ELSE buf
    IN  IF Len(first) < n
        THEN [panic |-> TRUE, input |-> first]
        ELSE [panic |-> FALSE,
              input |-> IF first[n] = CR THEN SubSeq(first, 1, n - 1)
                        ELSE first]

StatsAddUnique(self) ==
    [self EXCEPT !.total = @ + 1, !.unique = @ + 1]

\* Mutant: a duplicate is counted as a unique entry and not in the total.
StatsAddDuplicateAsUnique(self) ==
    [self EXCEPT !.unique = @ + 1]

StatsAddDuplicate(self) ==
    [self EXCEPT !.total = @ + 1]

StatsAddSize(self, size) ==
    [self EXCEPT !.size = @ + size]

\* duplicates(): total - unique on u64, which has no value below zero.
StatsDuplicates(self) ==
    IF self.unique > self.total THEN "underflow"
    ELSE self.total - self.unique

\* rate(): (unique / total) * 100 in floating point, here as the whole
\* percent it is cast to; 0 / 0 is not a number.
StatsRate(self) ==
    IF self.total = 0 THEN "NaN"
    ELSE (self.unique * 100) \div self.total

StatsSize(self) == self.size

StatsTotal(self) == self.total

StatsUniques(self) == self.unique

\* What the driver does with a record after detect has returned ret.
Route(input, ret) ==
    IF ret
    THEN IF options.statistics
         THEN /\ statistics' = StatsAddUnique(statistics)
              /\ tally' = Append(tally, TRUE)
              /\ out' = out
         ELSE /\ statistics' = statistics
              /\ tally' = tally
              /\ out' = IF ~options.inverted THEN Append(out, input) ELSE out
    ELSE IF options.statistics
         THEN /\ statistics' = StatsAddDuplicate(statistics)
              /\ tally' = Append(tally, FALSE)
              /\ out' = out
         ELSE /\ statistics' = statistics
              /\ tally' = tally
              /\ out' = IF options.inverted THEN Append(out, input) ELSE out

DriverInit ==
    /\ FiltersNew
    /\ pc = "read"
    /\ options \in [filter : FilterKinds, inverted : BOOLEAN,
                    statistics : BOOLEAN]
    /\ nreaders \in 1..MaxReaders
    /\ rd = 1
    /\ atEnd = FALSE
    /\ lines = << >>
    /\ sources = << >>
    /\ out = << >>
    /\ statistics = StatsNew
    /\ tally = << >>

\* One turn of the loop in which read_until returns Ok(n), n > 0.
ReadLine(buf) ==
    /\ pc = "read"
    /\ ~atEnd
    /\ Len(calls) < MaxCalls
    /\ lines' = Append(lines, buf)
    /\ sources' = Append(sources, rd)
    /\ atEnd' = (buf[Len(buf)] # LF)
    /\ rd' = rd
    /\ nreaders' = nreaders
    /\ options' = options
    /\ consecutive' = consecutive
    /\ UNCHANGED legacyVars
    /\ LET t == Trim(buf)
           k == options.filter
           r == FilterDetect(k, FilterState(k), t.input)
       IN  IF t.panic
           THEN /\ pc' = "panic"
                /\ UNCHANGED <<naive, digest, sorted, bloom, calls, res,
                               out, statistics, tally>>
           ELSE /\ pc' = "read"
                /\ naive' = IF k = "Naive" THEN r.self ELSE naive
                /\ digest' = IF k = "Digest" THEN r.self ELSE digest
                /\ sorted' = IF k = "Sorted" THEN r.self ELSE sorted
                /\ bloom' = IF k = "Bloom" THEN r.self ELSE bloom
                /\ calls' = Append(calls, t.input)
                /\ res' = [res EXCEPT ![k] = Append(@, r.ret)]
                /\ Route(t.input, r.ret)

\* Mutant: a fresh filter is made for every reader.
ReaderDoneReset ==
    /\ pc = "read"
    /\ IF rd < nreaders
       THEN /\ rd' = rd + 1
            /\ pc' = "read"
       ELSE /\ rd' = rd
            /\ pc' = IF options.statistics THEN "stats" ELSE "done"
    /\ atEnd' = FALSE
    /\ naive' = NaiveNew
    /\ digest' = DigestNew
    /\ sorted' = SortedNew
    /\ bloom' = BloomNew
    /\ UNCHANGED <<consecutive, legacyVars, calls, res,
                   options, nreaders, lines,
                   sources, out, statistics, tally>>

\* read_until returns Ok(0): the loop over this reader breaks; after the
\* last reader the statistics are printed when asked for.
ReaderDone ==
    /\ pc = "read"
    /\ IF rd < nreaders
       THEN /\ rd' = rd + 1
            /\ pc' = "read"
       ELSE /\ rd' = rd
            /\ pc' = IF options.statistics THEN "stats" ELSE "done"
    /\ atEnd' = FALSE
    /\ UNCHANGED <<filterVars, legacyVars, calls, res,
                   options, nreaders, lines,
                   sources, out, statistics, tally>>

\* read_until returns Err(e): main returns the error.
ReadError ==
    /\ pc = "read"
    /\ ~atEnd
    /\ pc' = "error"
    /\ UNCHANGED <<filterVars, legacyVars, calls, res,
                   options, nreaders, rd, atEnd,
                   lines, sources, out, statistics, tally>>

\* statistics.print(), then Ok(()).
PrintStats ==
    /\ pc = "stats"
    /\ pc' = "done"
    /\ UNCHANGED <<filterVars, legacyVars, calls, res,
                   options, nreaders, rd, atEnd,
                   lines, sources, out, statistics, tally>>

DriverNext ==
    \/ \E buf \in LineBuffers : ReadLine(buf)
    \/ ReaderDone
    \/ ReadError
    \/ PrintStats

DriverSpec == DriverInit /\ [][DriverNext]_vars

---------------------------------------------------------------------------
(* A Stats on its own, as the tests of statistics.rs use it: any sequence  *)
(* of add_unique, add_duplicate and add_size calls on Stats::new().        *)

StatsInit ==
    /\ FiltersNew
    /\ pc = "statslib"
    /\ options = NoOptions
    /\ nreaders = 0
    /\ rd = 0
    /\ atEnd = FALSE
    /\ lines = << >>
    /\ sources = << >>
    /\ out = << >>
    /\ statistics = StatsNew
    /\ tally = << >>

statsFrame ==
    <<filterVars, legacyVars, calls, res, pc,
      options, nreaders, rd, atEnd, lines,
      sources, out>>

AddUnique ==
    /\ pc = "statslib"
    /\ Len(tally) < MaxTally
    /\ statistics' = StatsAddUnique(statistics)
    /\ tally' = Append(tally, TRUE)
    /\ UNCHANGED statsFrame

AddDuplicate ==
    /\ pc = "statslib"
    /\ Len(tally) < MaxTally
    /\ statistics' = StatsAddDuplicate(statistics)
    /\ tally' = Append(tally, FALSE)
    /\ UNCHANGED statsFrame

AddSize(size) ==
    /\ pc = "statslib"
    /\ StatsSize(statistics) + size <= MaxSize
    /\ statistics' = StatsAddSize(statistics, size)
    /\ UNCHANGED <<statsFrame, tally>>

StatsNext ==
    \/ AddUnique
    \/ AddDuplicate
    \/ \E size \in 1..MaxSize : AddSize(size)

StatsSpec == StatsInit /\ [][StatsNext]_vars

---------------------------------------------------------------------------
(* Properties of the filters.                                              *)

\* The number of true results of detecting a sequence of records in order,
\* starting from the given filter state.
RECURSIVE NaiveTrueCount(_, _)
NaiveTrueCount(self, seq) ==
    IF seq = << >> THEN 0
    ELSE LET r == NaiveDetect(self, Head(seq))
         IN  (IF r.ret THEN 1 ELSE 0) + NaiveTrueCount(r.self, Tail(seq))

RECURSIVE DigestTrueCount(_, _)
DigestTrueCount(self, seq) ==
    IF seq = << >> THEN 0
    ELSE LET r == DigestDetect(self, Head(seq))
         IN  (IF r.ret THEN 1 ELSE 0) + DigestTrueCount(r.self, Tail(seq))

\* The calls before call j that were given the same bytes as call j.
EarlierSame(j) == {i \in 1..(j - 1) : calls[i] = calls[j]}

\* The calls before call j whose input has the same digest as call j's.
EarlierSameDigest(j) ==
    {i \in 1..(j - 1) : Hash64(calls[i], 0) = Hash64(calls[j], 0)}

\* C1: for every strategy and every record, the empty record and the
\* adjacent filter's initial stored value included, the first detect call
\* on a fresh instance returns true.
C1_FirstDetectTrue ==
    \A k \in Kinds : Len(res[k]) >= 1 => res[k][1] = TRUE

\* C2: for the exact, digest and bloom strategies, once detect(x) has
\* returned true every later detect(x) on the same instance returns false,
\* immediately or after any calls on other records in between.
C2_RepeatIsDuplicate ==
    \A k \in {"Naive", "Digest", "Bloom"} :
        \A j \in 1..Len(res[k]) :
            \A i \in EarlierSame(j) : res[k][i] => ~res[k][j]

C2_Witness ==
    /\ Len(calls) = 4
    /\ calls[1] = calls[2]
    /\ calls[1] = calls[4]
    /\ calls[3] # calls[1]
    /\ \A k \in {"Naive", "Digest", "Bloom"} :
           res[k] = <<TRUE, FALSE, TRUE, FALSE>>

\* C3: NaiveFilter is exact: detect(x) returns true if and only if no
\* earlier detect call on the instance was given bytes equal to x.
C3_NaiveExact ==
    \A j \in 1..Len(calls) : res.Naive[j] <=> (EarlierSame(j) = {})

C3_Witness ==
    /\ Len(calls) = 3
    /\ calls[1] = RecC
    /\ calls[2] = RecAB
    /\ calls[3] = RecC
    /\ res.Naive = <<TRUE, TRUE, FALSE>>

\* C4: SortedFilter and ConsecutiveFilter: for every detect call after the
\* first, detect(x) returns false if and only if x equals the record of the
\* immediately preceding call; a, a, b, a yields true, false, true, true.
C4_AdjacentOnly ==
    \A k \in {"Sorted", "Consecutive"} :
        /\ \A j \in 2..Len(calls) :
               (res[k][j] = FALSE) <=> (calls[j] = calls[j - 1])
        /\ calls = <<RecA, RecA, RecB, RecA>>
               => res[k] = <<TRUE, FALSE, TRUE, TRUE>>

C4_Witness ==
    /\ calls = <<RecA, RecA, RecB, RecA>>
    /\ res.Sorted = <<TRUE, FALSE, TRUE, TRUE>>
    /\ res.Consecutive = <<TRUE, FALSE, TRUE, TRUE>>

\* C5: DigestFilter: detect(x) returns true if and only if the digest of x
\* differs from the digest of every record given to an earlier call; of two
\* distinct records with one digest the second is reported as a duplicate.
C5_DigestEquality ==
    \A j \in 1..Len(calls) : res.Digest[j] <=> (EarlierSameDigest(j) = {})

C5_Witness ==
    /\ calls = <<RecC, RecAB>>
    /\ RecC # RecAB
    /\ Hash64(RecC, 0) = Hash64(RecAB, 0)
    /\ res.Digest = <<TRUE, FALSE>>
    /\ res.Naive = <<TRUE, TRUE>>

---------------------------------------------------------------------------
(* Properties of the bloom filter.                                         *)

\* The step is a detect call on the bloom filter.
BloomCalled == Len(res'.Bloom) = Len(res.Bloom) + 1

\* C6: BloomFilter detect first queries the digest across all layers; if
\* any layer reports positive it returns false and the filter state is
\* unchanged; otherwise it inserts the digest into the active (last) layer
\* only, leaving all older layers unchanged, and returns true.
C6_BloomDetectFrame ==
    [][BloomCalled =>
        LET d == Hash64(calls'[Len(calls')], 0)
            r == res'.Bloom[Len(res'.Bloom)]
            n == Len(bloom)
        IN  /\ (r = FALSE) <=> (\E i \in 1..n : SbfLayerContains(bloom[i], d))
            /\ (r = FALSE) => bloom' = bloom
            /\ (r = TRUE) =>
                  /\ Len(bloom') >= n
                  /\ \A i \in 1..(n - 1) : bloom'[i] = bloom[i]
                  /\ bloom'[n] # bloom[n]
                  /\ bloom'[n].bits = bloom[n].bits \cup SbfProbes(bloom[n], d)
                  /\ \A i \in (n + 1)..Len(bloom') : bloom'[i].bits = {}
    ]_vars

\* Both outcomes have happened, the positive one in an older layer, and the
\* last insertion went into the second layer.
C6_Witness ==
    /\ Len(bloom) = 2
    /\ bloom[2].count >= 1
    /\ Len(res.Bloom) >= 4
    /\ res.Bloom[Len(res.Bloom)] = FALSE
    /\ res.Bloom[Len(res.Bloom) - 1] = TRUE
    /\ ~SbfLayerContains(bloom[2], Hash64(calls[Len(calls)], 0))

\* C7: from a fresh filter whose first layer has rated capacity c, c + 1
\* detect calls that return true trigger exactly one layer append, giving
\* two layers; the number of layers never decreases, and no existing layer
\* is removed or merged: it keeps its place, its shape and its bits.
C7_BloomGrowth ==
    /\ [](CountTrue(res.Bloom) = InitialCapacity + 1 => Len(bloom) = 2)
    /\ [][/\ Len(bloom') >= Len(bloom)
          /\ \A i \in 1..Len(bloom) :
                /\ bloom'[i].m = bloom[i].m
                /\ bloom'[i].k = bloom[i].k
                /\ bloom'[i].capacity = bloom[i].capacity
                /\ bloom'[i].tighten = bloom[i].tighten
                /\ bloom[i].bits \subseteq bloom'[i].bits
                /\ bloom[i].count <= bloom'[i].count
      ]_vars

C7_Witness ==
    /\ Len(calls) = InitialCapacity + 1
    /\ Cardinality(Range(calls)) = InitialCapacity + 1
    /\ CountTrue(res.Bloom) = InitialCapacity + 1
    /\ Len(bloom) = 2
    /\ bloom[1].count = InitialCapacity
    /\ bloom[2].count = 1

\* The target error rate of a layer, p0 / TighteningDiv^tighten, in units
\* of p0 / TighteningDiv^MaxCalls.
SbfLayerError(layer) == Pow(TighteningDiv, MaxCalls - layer.tighten)

RECURSIVE SbfErrorSum(_)
SbfErrorSum(self) ==
    IF self = << >> THEN 0
    ELSE SbfLayerError(Head(self)) + SbfErrorSum(Tail(self))

\* The configured target error rate p0 in the same units.
SbfTargetError == Pow(TighteningDiv, MaxCalls)

\* C8: after any number of layer appends, the false-positive probability
\* summed over all layers never exceeds the configured target error rate.
C8_AggregateErrorBounded == SbfErrorSum(bloom) <= SbfTargetError

\* C9: order independence for NaiveFilter and DigestFilter: the number of
\* true results for a sequence of records is the number of distinct
\* records, respectively of distinct digests, in it, and so is the same
\* for the sequence with any two neighbours exchanged.
C9_OrderIndependent ==
    /\ CountTrue(res.Naive) = Cardinality(Range(calls))
    /\ CountTrue(res.Digest) =
           Cardinality({Hash64(calls[i], 0) : i \in 1..Len(calls)})
    /\ \A i \in 1..(Len(calls) - 1) :
           LET swapped == [calls EXCEPT ![i] = calls[i + 1],
                                        ![i + 1] = calls[i]]
           IN  /\ NaiveTrueCount(NaiveNew, swapped) = CountTrue(res.Naive)
               /\ DigestTrueCount(DigestNew, swapped) = CountTrue(res.Digest)

C9_Witness ==
    /\ calls = <<RecB, RecA, RecB, RecAB, RecC>>
    /\ CountTrue(res.Naive) = 4
    /\ CountTrue(res.Digest) = 3
    /\ NaiveTrueCount(NaiveNew, <<RecC, RecAB, RecB, RecB, RecA>>) = 4
    /\ DigestTrueCount(DigestNew, <<RecC, RecAB, RecB, RecB, RecA>>) = 3

---------------------------------------------------------------------------
(* Properties of the driver.                                               *)

\* The record of a line: its bytes without the trailing line feed and then
\* without the trailing carriage return.
Stripped(buf) ==
    LET a == IF buf # << >> /\ buf[Len(buf)] = LF
             THEN SubSeq(buf, 1, Len(buf) - 1) ELSE buf
    IN  IF a # << >> /\ a[Len(a)] = CR THEN SubSeq(a, 1, Len(a) - 1) ELSE a

\* The records the driver is to emit for a sequence of records: those for
\* which detect, called on each in order, returns true (false when
\* inverted).
RECURSIVE Emitted(_, _, _, _)
Emitted(kind, self, records, inverted) ==
    IF records = << >> THEN << >>
    ELSE LET r == FilterDetect(kind, self, Head(records))
         IN  (IF r.ret # inverted THEN <<Head(records)>> ELSE << >>)
                 \o Emitted(kind, r.self, Tail(records), inverted)

\* C10: outside statistics mode the driver emits, in input order, exactly
\* the records of the lines read for which detect returns true (false in
\* invert mode); lines a, b, a, c, b through the digest filter emit a, b, c,
\* and a, b when inverted.
C10_DriverRouting ==
    (pc # "lib" /\ ~options.statistics) =>
        out = Emitted(options.filter, FilterNew(options.filter),
                      [i \in 1..Len(lines) |-> Stripped(lines[i])],
                      options.inverted)

\* C11: the driver strips the line terminators of every line it reads, a
\* trailing line feed and then a trailing carriage return, and passes the
\* remaining bytes to detect; this succeeds for every line, so that every
\* line read has reached detect as its stripped record.
C11_StripsEveryLine ==
    pc # "lib" =>
        /\ pc # "panic"
        /\ Len(calls) = Len(lines)
        /\ \A i \in 1..Len(calls) : calls[i] = Stripped(lines[i])

\* Call j is a detect call on the record of an earlier call i that came
\* from an earlier source.
LaterSourceRepeat(i, j) ==
    /\ i < j
    /\ sources[i] < sources[j]
    /\ calls[i] = calls[j]

---------------------------------------------------------------------------
(* Properties of the statistics.                                           *)

\* The numbers of add_unique and of add_duplicate calls made so far.
TallyUniques == CountTrue(tally)
TallyDuplicates == Len(tally) - CountTrue(tally)

\* C13: after U add_unique and D add_duplicate calls in any order,
\* total() = U + D, uniques() = U and duplicates() = total - uniques = D;
\* uniques never exceeds total, so the subtraction never underflows.
C13_StatsAccounting ==
    /\ StatsTotal(statistics) = TallyUniques + TallyDuplicates
    /\ StatsUniques(statistics) = TallyUniques
    /\ StatsDuplicates(statistics) = TallyDuplicates
    /\ StatsUniques(statistics) <= StatsTotal(statistics)

C13_Witness ==
    /\ tally = <<FALSE, TRUE, FALSE, FALSE, TRUE, TRUE>>
    /\ StatsTotal(statistics) = 6
    /\ StatsUniques(statistics) = 3
    /\ StatsDuplicates(statistics) = 3

\* C14: rate() is the rate of receiving duplicates: after U add_unique and
\* D add_duplicate calls with U + D > 0 it is the duplicate percentage
\* 100 - (U / (U + D)) * 100, in whole percent.
C14_RateIsDuplicatePercent ==
    Len(tally) > 0 =>
        StatsRate(statistics) =
            (100 * (TallyUniques + TallyDuplicates) - 100 * TallyUniques)
                \div (TallyUniques + TallyDuplicates)

---------------------------------------------------------------------------
(* Further properties of the driver and of the filters.                    *)

\* The booleans detect returns for a sequence of records given in order.
RECURSIVE Detected(_, _, _)
Detected(kind, self, records) ==
    IF records = << >> THEN << >>
    ELSE LET r == FilterDetect(kind, self, Head(records))
         IN  <<r.ret>> \o Detected(kind, r.self, Tail(records))

\* The records of the lines read so far.
RecordsRead == [i \in 1..Len(lines) |-> Stripped(lines[i])]

\* C15: in statistics mode the driver emits no record, whatever the invert
\* flag is, and every record read is tallied exactly once, as add_unique
\* when detect returns true for it and as add_duplicate when it returns
\* false, so that total is the number of records read.
C15_StatisticsMode ==
    (pc \notin {"lib", "statslib"} /\ options.statistics) =>
        /\ out = << >>
        /\ tally = Detected(options.filter, FilterNew(options.filter),
                            RecordsRead)
        /\ StatsTotal(statistics) = Len(lines)
        /\ StatsUniques(statistics) = CountTrue(tally)

\* The step is a detect call on the filters driven through the library.
LibCalled == pc = "lib" /\ Len(calls') = Len(calls) + 1

\* C16: the adjacent filters always hold exactly one stored value; a detect
\* call that returns false leaves it unchanged, one that returns true
\* replaces it with the record, so after every detect(x) it equals x.
C16_AdjacentStateUpdate ==
    /\ [](pc = "lib" =>
            /\ sorted \in Records
            /\ consecutive \in Records
            /\ Len(calls) >= 1 =>
                  /\ sorted = calls[Len(calls)]
                  /\ consecutive = calls[Len(calls)])
    /\ [][LibCalled =>
            LET x == calls'[Len(calls')]
                s == res'.Sorted[Len(calls')]
                c == res'.Consecutive[Len(calls')]
            IN  /\ sorted' = IF s THEN x ELSE sorted
                /\ consecutive' = IF c THEN x ELSE consecutive
      ]_vars

C16_Witness ==
    /\ calls = <<RecA, RecA, RecB>>
    /\ res.Sorted = <<TRUE, FALSE, TRUE>>
    /\ res.Consecutive = <<TRUE, FALSE, TRUE>>
    /\ sorted = RecB
    /\ consecutive = RecB

\* Equal records are next to each other in the sequence.
Contiguous(s) ==
    \A i \in 1..Len(s) : \A j \in i..Len(s) :
        s[i] = s[j] => \A m \in i..j : s[m] = s[i]

\* C17: on every stream in which equal records are contiguous the adjacent
\* filters return what the exact filter returns, for every detect call,
\* when all start fresh.
C17_AdjacentRefinesExact ==
    (pc = "lib" /\ Contiguous(calls)) =>
        /\ res.Sorted = res.Naive
        /\ res.Consecutive = res.Naive

\* C18: in NaiveFilter and DigestFilter no member is ever removed from the
\* set, a detect call returning false leaves the set unchanged, one
\* returning true adds exactly one member, and the set size equals the
\* number of detect calls that have returned true.
C18_SetsOnlyGrow ==
    /\ [](pc = "lib" =>
            /\ Cardinality(naive) = CountTrue(res.Naive)
            /\ Cardinality(digest) = CountTrue(res.Digest))
    /\ [][LibCalled =>
            LET n == res'.Naive[Len(calls')]
                d == res'.Digest[Len(calls')]
            IN  /\ naive \subseteq naive'
                /\ digest \subseteq digest'
                /\ Cardinality(naive') =
                       Cardinality(naive) + (IF n THEN 1 ELSE 0)
                /\ Cardinality(digest') =
                       Cardinality(digest) + (IF d THEN 1 ELSE 0)
      ]_vars

C18_Witness ==
    /\ calls = <<RecC, RecAB, RecC, RecA>>
    /\ Cardinality(naive) = 3
    /\ Cardinality(digest) = 2
    /\ res.Naive = <<TRUE, TRUE, FALSE, TRUE>>
    /\ res.Digest = <<TRUE, FALSE, FALSE, TRUE>>

\* The outcome of a detect call that has returned: the filter's state and
\* a boolean, and nothing else.
Returned(r) == DOMAIN r = {"self", "ret"} /\ r.ret \in BOOLEAN

\* C19: detect never fails: for every strategy, every reachable filter
\* state and every record, the empty one included, detect completes and
\* returns a boolean.
C19_DetectNeverFails ==
    pc = "lib" =>
        /\ \A k \in Kinds : Len(res[k]) = Len(calls)
        /\ \A x \in Records :
              /\ Returned(NaiveDetect(naive, x))
              /\ Returned(DigestDetect(digest, x))
              /\ Returned(SortedDetect(sorted, x))
              /\ Returned(ConsecutiveDetect(consecutive, x))
              /\ Returned(BloomDetect(bloom, x))

C19_Witness ==
    /\ Len(calls) = MaxCalls
    /\ calls[MaxCalls] = Empty
    /\ calls[1] = Empty
    /\ Len(bloom) >= 2
    /\ \A k \in Kinds : Len(res[k]) = MaxCalls

\* C20: for finite input sources the run terminates: it handles one record
\* to completion before reading the next, calls detect exactly once per
\* record in input order, stops when the last source is exhausted, and
\* prints the statistics only after every record has been processed.
C20_RunCompletes ==
    pc \notin {"lib", "statslib"} =>
        /\ pc \in {"read", "stats", "done", "error"}
        /\ calls = RecordsRead
        /\ pc \in {"stats", "done"} => rd = nreaders

\* The 64-bit digests (seed 0) of the records given to detect so far.
CallDigests == {Hash64(calls[i], 0) : i \in 1..Len(calls)}

\* C21: the membership key of the digest filter is always the full 64-bit
\* hash (seed 0) of the record's bytes, in both DigestFilter
\* implementations and on every target, never a narrower hash: both hold
\* the 64-bit digests of the records seen and return the same results.
C21_DigestIsHash64 ==
    pc = "lib" =>
        /\ digest = CallDigests
        /\ udigest = CallDigests
        /\ ures = res.Digest

\* C22: whenever the driver prints statistics the total count is greater
\* than zero, so that rate() never divides by zero, also for a run whose
\* inputs contain no records.
C22_TotalPositiveAtPrint ==
    pc = "stats" => StatsTotal(statistics) > 0

\* No two distinct records of the sequence have the same 64-bit digest.
InjectiveOn(s) ==
    \A i, j \in 1..Len(s) :
        Hash64(s[i], 0) = Hash64(s[j], 0) => s[i] = s[j]

\* C23: fresh digest and exact filters driven with the same stream: every
\* record the digest filter reports as new is reported as new by the exact
\* filter at the same position, and when the digest is injective on the
\* records of the stream the two return the same result for every call.
C23_DigestRefinesExact ==
    pc = "lib" =>
        /\ \A i \in 1..Len(calls) : res.Digest[i] => res.Naive[i]
        /\ InjectiveOn(calls) => res.Digest = res.Naive

C23_Witness ==
    /\ calls = <<RecA, RecAB, RecA, RecB, RecAB>>
    /\ InjectiveOn(calls)
    /\ res.Digest = <<TRUE, TRUE, FALSE, TRUE, FALSE>>
    /\ res.Naive = res.Digest

\* The members of s at the positions in P, from position i on, in order.
RECURSIVE PickAt(_, _, _)
PickAt(s, P, i) ==
    IF i > Len(s) THEN << >>
    ELSE (IF i \in P THEN <<s[i]>> ELSE << >>) \o PickAt(s, P, i + 1)

\* The positions of the records this run has emitted: those for which its
\* detect call returned true (false when inverted).
EmittedHere ==
    {i \in 1..Len(res[options.filter]) :
        res[options.filter][i] # options.inverted}

\* The positions the run with the opposite invert flag emits for the same
\* records and the same strategy.
EmittedOpposite ==
    LET d == Detected(options.filter, FilterNew(options.filter),
                      RecordsRead)
    IN  {i \in 1..Len(lines) : d[i] # ~options.inverted}

\* C24: outside statistics mode the invert and the non-invert run on the
\* same input with the same strategy partition the input: every record
\* position is emitted in exactly one of the two, and each run's output is
\* the subsequence of the input at its positions, in input order.
C24_InvertPartitions ==
    (pc \notin {"lib", "statslib"} /\ ~options.statistics) =>
        /\ EmittedHere \cap EmittedOpposite = {}
        /\ EmittedHere \cup EmittedOpposite = 1..Len(lines)
        /\ out = PickAt(RecordsRead, EmittedHere, 1)

============================================================================
